---- MODULE Spec2Model ----
(***************************************************************************)
(* pyTranscriber REST API server (api_server.py): the job registry, the    *)
(* POST /transcribe handler, the per-job worker thread                     *)
(* (process_transcription_job), the progress callback, DELETE /jobs/<id>,  *)
(* POST /cleanup and the read-only handlers.                               *)
(*                                                                         *)
(* The server runs with threaded=True and takes no lock anywhere, so every *)
(* handler and every worker is a thread whose accesses to the shared       *)
(* registry, to a record's fields and to the disk interleave with the      *)
(* others. One action below is one such access (or a run of statements     *)
(* that touch nothing shared).                                             *)
(***************************************************************************)
EXTENDS Integers, Sequences, FiniteSets, TLC

\* ------------------------------------------------------------------ bounds
\* POST /transcribe requests served: request h is handled by handler thread
\* h, builds record h and starts worker thread h.
MaxJobs == 2
\* Values uuid.uuid4().hex[:8] is drawn from (32 random bits in the code).
NumUuids == 2
\* DELETE /jobs/<id> requests served, each by its own handler thread.
NumDeleters == 2
\* Times the clock advances, and the hours it advances by each time.
MaxTicks == 1
TickHours == 48

\* max_age_hours = 24
MaxAgeHours == 24

Jobs == 1..MaxJobs
Uuids == 1..NumUuids
Deleters == 1..NumDeleters

\* Values the backend passes to the progress callback.
ProgressValues == {50, 100}

\* ------------------------------------------------------------- the values
NoTime == -1          \* end_time is None
NoFile == -1          \* the path does not exist
NoJob == 0            \* a thread's local `job` not yet bound
NoId == <<0, 0>>      \* an identifier never issued
NoMessage == "None"   \* error_message is None

\* f"job_{job_counter}_{uuid.uuid4().hex[:8]}"
JobId(counter, uuid) == <<counter, uuid>>

\* os.path.join(UPLOAD_FOLDER, unique_filename): the upload of request h. The
\* name starts with a full uuid4 hex, so each request has its own path.
UploadPath(h) == <<"uploads", h, "media">>

\* os.path.join(OUTPUT_FOLDER, f"{base_name}.srt") and ....txt, base_name the
\* stem of the upload's name.
OutputPath(filename, ext) == <<"outputs", filename[2], ext>>

Paths == {UploadPath(h) : h \in Jobs}
           \cup {OutputPath(UploadPath(h), e) : h \in Jobs, e \in {"srt", "txt"}}

EmptyDict == [k \in {} |-> NoFile]

\* The third element of the backend wrapper's successful return.
OutputFiles(filename) ==
    [k \in {"srt_file", "txt_file"} |->
        IF k = "srt_file" THEN OutputPath(filename, "srt")
                          ELSE OutputPath(filename, "txt")]

\* TranscriptionJob.__init__
TranscriptionJob(job_id, filename, engine) ==
    [job_id |-> job_id, filename |-> filename, engine |-> engine,
     status |-> "pending", progress |-> 0, end_time |-> NoTime,
     error_message |-> NoMessage, output_files |-> EmptyDict]

\* A record slot no request has filled yet.
Unborn == [TranscriptionJob(NoId, UploadPath(1), "whisper") EXCEPT !.status = "unborn"]

\* -------------------------------------------- the registry, a Python dict
\* transcription_jobs is a sequence of entries in insertion order, one per
\* key; the value is the index of the record object.
Keys(d) == {d[i].k : i \in 1..Len(d)}
Has(d, id) == id \in Keys(d)
Get(d, id) == (CHOOSE i \in 1..Len(d) : d[i].k = id) \* d[id]
LookUp(d, id) == d[Get(d, id)].v
\* d[id] = v: a new key goes last, an existing key keeps its place.
DictSet(d, id, v) ==
    IF Has(d, id) THEN [d EXCEPT ![Get(d, id)].v = v]
                  ELSE Append(d, [k |-> id, v |-> v])
\* del d[id]
DictDel(d, id) ==
    LET i == Get(d, id) IN SubSeq(d, 1, i - 1) \o SubSeq(d, i + 1, Len(d))

\* --------------------------------------------------------------- the state
VARIABLES
    job_counter,          \* the global job_counter
    transcription_jobs,   \* the global registry
    heap,                 \* the TranscriptionJob objects, by index
    disk,                 \* path -> creation time, or NoFile
    now,                  \* datetime.now()
    post,                 \* the POST /transcribe handler threads
    worker,               \* the worker threads
    deleter,              \* the DELETE handler threads
    cleaner,              \* the POST /cleanup handler
    swept,                \* history: paths cleanup has removed
    lister                \* the GET /jobs handler

vars == <<job_counter, transcription_jobs, heap, disk, now, post, worker,
          deleter, cleaner, swept, lister>>

Init ==
    /\ job_counter = 0
    /\ transcription_jobs = <<>>
    /\ heap = [h \in Jobs |-> Unborn]
    /\ disk = [p \in Paths |-> NoFile]
    /\ now = 0
    /\ post = [h \in Jobs |-> [pc |-> "idle", engine |-> "whisper", tmp |-> 0, id |-> NoId,
                             code |-> 0]]
    /\ worker = [h \in Jobs |-> [pc |-> "idle", job |-> NoJob, result |-> "none",
                                 success |-> FALSE, message |-> NoMessage]]
    /\ deleter = [d \in Deleters |-> [pc |-> "idle", id |-> NoId, job |-> NoJob, code |-> 0]]
    /\ cleaner = [pc |-> "idle", current_time |-> 0, jobs_to_remove |-> <<>>, code |-> 0]
    /\ swept = {}
    /\ lister = [pc |-> "idle", used |-> 0, pos |-> 0, jobs |-> <<>>, code |-> 0]


\* ------------------------------------------- POST /transcribe (transcribe_file)
Engines == {"autosub", "whisper"}

\* ALLOWED_EXTENSIONS['audio'] | ALLOWED_EXTENSIONS['video']
AllowedExtensions ==
    {"mp3", "wav", "m4a", "flac", "ogg", "aac"}
        \cup {"mp4", "avi", "mkv", "mov", "wmv", "flv", "webm", "ogv"}

\* A file name is the sequence of its parts between dots: "clip.tar.MP3" is
\* <<"clip", "tar", "MP3">>, "clip" is <<"clip">>, "clip." is <<"clip", "">>
\* and the empty name is <<"">>.
FileNames ==
    {<<"">>, <<"clip">>, <<"clip", "">>, <<"clip", "txt">>, <<"clip", "mp3">>,
     <<"clip", "tar", "MP3">>}

\* The form's engine field; NoField when the form has none.
NoField == "absent"
EngineFields == {NoField, "autosub", "Whisper", "vosk"}

\* The requests: request.files has a 'file' entry or not, with its filename,
\* and the form's engine field.
Requests == [has_file : BOOLEAN, filename : FileNames, engine : EngineFields]

\* str.lower() on the strings of the requests.
Lower(s) ==
    CASE s = "MP3" -> "mp3"
      [] s = "Whisper" -> "whisper"
      [] OTHER -> s

\* filename.rsplit('.', 1)[1].lower() if '.' in filename else ''
Extension(filename) ==
    IF Len(filename) > 1 THEN Lower(filename[Len(filename)]) ELSE ""

\* An allowed_file that accepts every name.
allowed_file_any(filename) == TRUE

\* Lines 96-99
allowed_file(filename) == Extension(filename) \in AllowedExtensions

\* Line 269: request.form.get('engine', 'whisper').lower()
EngineOf(req) == Lower(IF req.engine = NoField THEN "whisper" ELSE req.engine)

\* Lines 254-275: the status code the validation returns, 0 when it passes.
Validate(req) ==
    IF ~req.has_file THEN 400
    ELSE IF req.filename = <<"">> THEN 400
    ELSE IF ~allowed_file(req.filename) THEN 400
    ELSE IF EngineOf(req) \notin Engines THEN 400
    ELSE 0

\* Requests are numbered in the order in which their handlers start.
Arrives(h) ==
    /\ post[h].pc = "idle"
    /\ \A g \in Jobs : g < h => post[g].pc # "idle"

\* Lines 254-281 for request req when it passes validation: the upload is
\* saved.
PostSaveOf(h, req) ==
    /\ Validate(req) = 0
    /\ post' = [post EXCEPT ![h].pc = "load", ![h].engine = EngineOf(req)]
    /\ disk' = [disk EXCEPT ![UploadPath(h)] = now]
    /\ UNCHANGED <<job_counter, transcription_jobs, heap, now, worker, deleter, cleaner, swept, lister>>

PostSave(h) == Arrives(h) /\ \E req \in Requests : PostSaveOf(h, req)

\* Lines 254-275 for request req when it fails validation: the handler returns
\* the code.
PostRejectOf(h, req) ==
    /\ Validate(req) # 0
    /\ post' = [post EXCEPT ![h].pc = "rejected", ![h].code = Validate(req)]
    /\ UNCHANGED <<job_counter, transcription_jobs, heap, disk, now, worker, deleter, cleaner, swept, lister>>

PostReject(h) == Arrives(h) /\ \E req \in Requests : PostRejectOf(h, req)

\* get_next_job_id, line 104: job_counter += 1 reads the global ...
GetNextLoad(h) ==
    /\ post[h].pc = "load"
    /\ post' = [post EXCEPT ![h].pc = "store", ![h].tmp = job_counter]
    /\ UNCHANGED <<job_counter, transcription_jobs, heap, disk, now, worker, deleter, cleaner, swept, lister>>

\* ... and writes it back in a later bytecode.
GetNextStore(h) ==
    /\ post[h].pc = "store"
    /\ job_counter' = post[h].tmp + 1
    /\ post' = [post EXCEPT ![h].pc = "format", ![h].tmp = 0]
    /\ UNCHANGED <<transcription_jobs, heap, disk, now, worker, deleter, cleaner, swept, lister>>

\* Line 105 reads the global again and draws the uuid; line 285 builds the
\* record, which nothing else can reach yet.
GetNextFormat(h) ==
    /\ post[h].pc = "format"
    /\ \E u \in Uuids :
         LET id == JobId(job_counter, u) IN
         /\ post' = [post EXCEPT ![h].pc = "insert", ![h].id = id]
         /\ heap' = [heap EXCEPT ![h] = TranscriptionJob(id, UploadPath(h), post[h].engine)]
    /\ UNCHANGED <<job_counter, transcription_jobs, disk, now, worker, deleter, cleaner, swept, lister>>

\* PostInsert that registers nothing.
PostInsertNothing(h) ==
    /\ post[h].pc = "insert"
    /\ post' = [post EXCEPT ![h].pc = "start"]
    /\ UNCHANGED <<job_counter, transcription_jobs, heap, disk, now, worker, deleter, cleaner, swept, lister>>

\* Line 286: transcription_jobs[job_id] = job
PostInsert(h) ==
    /\ post[h].pc = "insert"
    /\ transcription_jobs' = DictSet(transcription_jobs, post[h].id, h)
    /\ post' = [post EXCEPT ![h].pc = "start"]
    /\ UNCHANGED <<job_counter, heap, disk, now, worker, deleter, cleaner, swept, lister>>

\* Lines 290-292: thread.start()
PostStart(h) ==
    /\ post[h].pc = "start"
    /\ worker' = [worker EXCEPT ![h].pc = "w203"]
    /\ post' = [post EXCEPT ![h].pc = "return"]
    /\ UNCHANGED <<job_counter, transcription_jobs, heap, disk, now, deleter, cleaner, swept, lister>>

\* Lines 294-298: the 202 response with the job identifier.
PostReturn(h) ==
    /\ post[h].pc = "return"
    /\ post' = [post EXCEPT ![h].pc = "done", ![h].code = 202]
    /\ UNCHANGED <<job_counter, transcription_jobs, heap, disk, now, worker, deleter, cleaner, swept, lister>>

\* --------------------------------- the worker (process_transcription_job)
\* The job_id the thread was started with.
Arg(h) == post[h].id

\* Lines 203-204
WorkerCheck(h) ==
    /\ worker[h].pc = "w203"
    /\ worker' = [worker EXCEPT ![h].pc =
                    IF Has(transcription_jobs, Arg(h)) THEN "w206" ELSE "done"]
    /\ UNCHANGED <<job_counter, transcription_jobs, heap, disk, now, post, deleter, cleaner, swept, lister>>

\* Line 206: a second look-up, outside the try; a KeyError ends the thread.
WorkerLookup(h) ==
    /\ worker[h].pc = "w206"
    /\ worker' = IF Has(transcription_jobs, Arg(h))
                 THEN [worker EXCEPT ![h].pc = "w207",
                                     ![h].job = LookUp(transcription_jobs, Arg(h))]
                 ELSE [worker EXCEPT ![h].pc = "crashed"]
    /\ UNCHANGED <<job_counter, transcription_jobs, heap, disk, now, post, deleter, cleaner, swept, lister>>

\* WorkerProcessing that leaves the status as it is.
WorkerProcessingSilent(h) ==
    /\ worker[h].pc = "w207"
    /\ worker' = [worker EXCEPT ![h].pc = "backend"]
    /\ UNCHANGED <<job_counter, transcription_jobs, heap, disk, now, post, deleter, cleaner, swept, lister>>

\* Line 207
WorkerProcessing(h) ==
    /\ worker[h].pc = "w207"
    /\ heap' = [heap EXCEPT ![worker[h].job].status = "processing"]
    /\ worker' = [worker EXCEPT ![h].pc = "backend"]
    /\ UNCHANGED <<job_counter, transcription_jobs, disk, now, post, deleter, cleaner, swept, lister>>

\* CallbackCheck of a backend that goes on calling the callback after it has
\* returned and the worker has ended.
CallbackCheckAfterEnd(h) ==
    \/ /\ worker[h].pc = "backend"
       /\ heap[worker[h].job].engine = "autosub"
       /\ Has(transcription_jobs, Arg(h))
       /\ worker' = [worker EXCEPT ![h].pc = "cb111"]
       /\ UNCHANGED <<job_counter, transcription_jobs, heap, disk, now, post, deleter, cleaner, swept, lister>>
    \/ /\ worker[h].pc = "done" /\ worker[h].job # NoJob
       /\ heap[worker[h].job].engine = "autosub"
       /\ Has(transcription_jobs, Arg(h))
       /\ \E p \in ProgressValues :
            heap' = [heap EXCEPT ![LookUp(transcription_jobs, Arg(h))].progress = p]
       /\ UNCHANGED <<job_counter, transcription_jobs, disk, now, post, worker, deleter, cleaner, swept, lister>>

\* progress_callback, line 110: only autosub is given the callback, and it
\* calls it any number of times before it returns.
CallbackCheck(h) ==
    /\ worker[h].pc = "backend"
    /\ heap[worker[h].job].engine = "autosub"
    /\ Has(transcription_jobs, Arg(h))
    /\ worker' = [worker EXCEPT ![h].pc = "cb111"]
    /\ UNCHANGED <<job_counter, transcription_jobs, heap, disk, now, post, deleter, cleaner, swept, lister>>

\* progress_callback, line 111: a second look-up, then the write of the
\* value the backend passed. A KeyError is raised into the backend and ends
\* in the wrapper's except clause.
CallbackWrite(h) ==
    /\ worker[h].pc = "cb111"
    /\ IF Has(transcription_jobs, Arg(h))
       THEN /\ \E p \in ProgressValues :
                 heap' = [heap EXCEPT ![LookUp(transcription_jobs, Arg(h))].progress = p]
            /\ worker' = [worker EXCEPT ![h].pc = "backend"]
       ELSE /\ heap' = heap
            /\ worker' = [worker EXCEPT ![h].pc = "check", ![h].result = "raise"]
    /\ UNCHANGED <<job_counter, transcription_jobs, disk, now, post, deleter, cleaner, swept, lister>>

\* What the backend call can come to: it returns a true result having written
\* both files ("ok") or only one of them, returns a false result, returns -1,
\* raises, or raises something whose formatting raises in the wrapper's except
\* clause ("escape"), which then leaves the wrapper.
Outcomes == {"ok", "no_srt", "no_txt", "false", "cancel", "raise", "escape"}

Written(outcome) ==
    CASE outcome = "ok" -> {"srt", "txt"}
      [] outcome = "no_srt" -> {"txt"}
      [] outcome = "no_txt" -> {"srt"}
      [] OTHER -> {}

\* Lines 127-132 and 171-177: the backend runs on job.filename.
BackendRun(h) ==
    /\ worker[h].pc = "backend"
    /\ \E o \in Outcomes :
         /\ worker' = [worker EXCEPT ![h].pc = "check", ![h].result = o]
         /\ disk' = [p \in Paths |->
                       IF \E e \in Written(o) :
                            p = OutputPath(heap[worker[h].job].filename, e)
                       THEN now ELSE disk[p]]
    /\ UNCHANGED <<job_counter, transcription_jobs, heap, now, post, deleter, cleaner, swept, lister>>

\* WrapperResult without the test for the sentinel -1, which is a true value.
WrapperResultNoSentinel(result, d, filename) ==
    CASE result = "false" -> [success |-> FALSE, message |-> "Failed to generate subtitles"]
      [] result = "raise" -> [success |-> FALSE, message |-> "transcription failed"]
      [] OTHER ->
           IF d[OutputPath(filename, "srt")] = NoFile
           THEN [success |-> FALSE, message |-> "SRT file was not created"]
           ELSE IF d[OutputPath(filename, "txt")] = NoFile
           THEN [success |-> FALSE, message |-> "TXT file was not created"]
           ELSE [success |-> TRUE, message |-> "Transcription completed successfully"]

\* Lines 134-157 and 179-199: the wrapper's return value, from the backend's
\* result and the disk.
WrapperResult(result, d, filename) ==
    CASE result = "cancel" -> [success |-> FALSE, message |-> "Transcription was cancelled"]
      [] result = "false" -> [success |-> FALSE, message |-> "Failed to generate subtitles"]
      [] result = "raise" -> [success |-> FALSE, message |-> "transcription failed"]
      [] OTHER ->
           IF d[OutputPath(filename, "srt")] = NoFile
           THEN [success |-> FALSE, message |-> "SRT file was not created"]
           ELSE IF d[OutputPath(filename, "txt")] = NoFile
           THEN [success |-> FALSE, message |-> "TXT file was not created"]
           ELSE [success |-> TRUE, message |-> "Transcription completed successfully"]

\* The wrapper returns and line 225 sets end_time; or the exception leaves
\* the wrapper for line 234.
WrapperReturn(h) ==
    /\ worker[h].pc = "check"
    /\ IF worker[h].result = "escape"
       THEN /\ worker' = [worker EXCEPT ![h].pc = "w235", ![h].result = "none"]
            /\ heap' = heap
       ELSE LET r == WrapperResult(worker[h].result, disk, heap[worker[h].job].filename) IN
            /\ worker' = [worker EXCEPT ![h].pc = "w226", ![h].result = "none",
                                        ![h].success = r.success, ![h].message = r.message]
            /\ heap' = [heap EXCEPT ![worker[h].job].end_time = now]
    /\ UNCHANGED <<job_counter, transcription_jobs, disk, now, post, deleter, cleaner, swept, lister>>

\* WorkerStatus that gives a failed run no terminal status.
WorkerStatusSkipFailed(h) ==
    /\ worker[h].pc = "w226"
    /\ heap' = [heap EXCEPT ![worker[h].job].status =
                  IF worker[h].success THEN "completed" ELSE "processing"]
    /\ worker' = [worker EXCEPT ![h].pc = IF worker[h].success THEN "w228" ELSE "w232"]
    /\ UNCHANGED <<job_counter, transcription_jobs, disk, now, post, deleter, cleaner, swept, lister>>

\* Lines 226-227 and 230-231
WorkerStatus(h) ==
    /\ worker[h].pc = "w226"
    /\ heap' = [heap EXCEPT ![worker[h].job].status =
                  IF worker[h].success THEN "completed" ELSE "failed"]
    /\ worker' = [worker EXCEPT ![h].pc = IF worker[h].success THEN "w228" ELSE "w232"]
    /\ UNCHANGED <<job_counter, transcription_jobs, disk, now, post, deleter, cleaner, swept, lister>>

\* WorkerOutputs that also stores the record under its identifier again.
WorkerOutputsStore(h) ==
    /\ worker[h].pc = "w228"
    /\ heap' = [heap EXCEPT ![worker[h].job].output_files =
                  OutputFiles(heap[worker[h].job].filename)]
    /\ transcription_jobs' = DictSet(transcription_jobs, Arg(h), worker[h].job)
    /\ worker' = [worker EXCEPT ![h].pc = "w229"]
    /\ UNCHANGED <<job_counter, disk, now, post, deleter, cleaner, swept, lister>>

\* Line 228
WorkerOutputs(h) ==
    /\ worker[h].pc = "w228"
    /\ heap' = [heap EXCEPT ![worker[h].job].output_files =
                  OutputFiles(heap[worker[h].job].filename)]
    /\ worker' = [worker EXCEPT ![h].pc = "w229"]
    /\ UNCHANGED <<job_counter, transcription_jobs, disk, now, post, deleter, cleaner, swept, lister>>

\* WorkerProgress that writes through the store, as the progress callback does.
WorkerProgressViaStore(h) ==
    /\ worker[h].pc = "w229"
    /\ IF Has(transcription_jobs, Arg(h))
       THEN /\ heap' = [heap EXCEPT ![LookUp(transcription_jobs, Arg(h))].progress = 100]
            /\ worker' = [worker EXCEPT ![h].pc = "done", ![h].success = FALSE,
                                        ![h].message = NoMessage]
       ELSE /\ heap' = heap
            /\ worker' = [worker EXCEPT ![h].pc = "crashed"]
    /\ UNCHANGED <<job_counter, transcription_jobs, disk, now, post, deleter, cleaner, swept, lister>>

\* Line 229
WorkerProgress(h) ==
    /\ worker[h].pc = "w229"
    /\ heap' = [heap EXCEPT ![worker[h].job].progress = 100]
    /\ worker' = [worker EXCEPT ![h].pc = "done", ![h].success = FALSE,
                                ![h].message = NoMessage]
    /\ UNCHANGED <<job_counter, transcription_jobs, disk, now, post, deleter, cleaner, swept, lister>>

\* WorkerError with a failed job put back in line for another run.
WorkerErrorRequeue(h) ==
    /\ worker[h].pc = "w232"
    /\ heap' = [heap EXCEPT ![worker[h].job].error_message = worker[h].message,
                            ![worker[h].job].status = "pending"]
    /\ worker' = [worker EXCEPT ![h].pc = "done", ![h].message = NoMessage]
    /\ UNCHANGED <<job_counter, transcription_jobs, disk, now, post, deleter, cleaner, swept, lister>>

\* Line 232
WorkerError(h) ==
    /\ worker[h].pc = "w232"
    /\ heap' = [heap EXCEPT ![worker[h].job].error_message = worker[h].message]
    /\ worker' = [worker EXCEPT ![h].pc = "done", ![h].message = NoMessage]
    /\ UNCHANGED <<job_counter, transcription_jobs, disk, now, post, deleter, cleaner, swept, lister>>

\* Line 235
ExceptStatus(h) ==
    /\ worker[h].pc = "w235"
    /\ heap' = [heap EXCEPT ![worker[h].job].status = "failed"]
    /\ worker' = [worker EXCEPT ![h].pc = "w236"]
    /\ UNCHANGED <<job_counter, transcription_jobs, disk, now, post, deleter, cleaner, swept, lister>>

\* Line 236
ExceptMessage(h) ==
    /\ worker[h].pc = "w236"
    /\ heap' = [heap EXCEPT ![worker[h].job].error_message = "Unexpected error"]
    /\ worker' = [worker EXCEPT ![h].pc = "w237"]
    /\ UNCHANGED <<job_counter, transcription_jobs, disk, now, post, deleter, cleaner, swept, lister>>

\* Line 237
ExceptEndTime(h) ==
    /\ worker[h].pc = "w237"
    /\ heap' = [heap EXCEPT ![worker[h].job].end_time = now]
    /\ worker' = [worker EXCEPT ![h].pc = "done"]
    /\ UNCHANGED <<job_counter, transcription_jobs, disk, now, post, deleter, cleaner, swept, lister>>


\* ----------------------------------------- DELETE /jobs/<job_id> (delete_job)
\* Identifiers a client can name: those put into the registry so far (GET
\* /jobs lists them) and one that was never issued.
Issued == {post[h].id : h \in {g \in Jobs : post[g].pc \in {"start", "return", "done"}}}

\* Lines 344-345. Requests are numbered in the order in which their handlers
\* start.
DeleteCheck(d) ==
    /\ deleter[d].pc = "idle"
    /\ \A c \in Deleters : c < d => deleter[c].pc # "idle"
    /\ \E id \in Issued \cup {NoId} :
         deleter' = IF Has(transcription_jobs, id)
                    THEN [deleter EXCEPT ![d].pc = "d347", ![d].id = id]
                    ELSE [deleter EXCEPT ![d].pc = "done", ![d].id = id, ![d].code = 404]
    /\ UNCHANGED <<job_counter, transcription_jobs, heap, disk, now, post, worker, cleaner, swept, lister>>

\* Line 347: a second look-up; its KeyError is an unhandled fault (500).
DeleteLookup(d) ==
    /\ deleter[d].pc = "d347"
    /\ deleter' = IF Has(transcription_jobs, deleter[d].id)
                  THEN [deleter EXCEPT ![d].pc = "d350",
                                       ![d].job = LookUp(transcription_jobs, deleter[d].id)]
                  ELSE [deleter EXCEPT ![d].pc = "done", ![d].code = 500]
    /\ UNCHANGED <<job_counter, transcription_jobs, heap, disk, now, post, worker, cleaner, swept, lister>>

\* The paths lines 350-362 remove: the values of job.output_files as they
\* are now, and job.filename.
DeletePaths(job) ==
    {job.output_files[k] : k \in DOMAIN job.output_files} \cup {job.filename}

\* Lines 350-362
DeleteFiles(d) ==
    /\ deleter[d].pc = "d350"
    /\ disk' = [p \in Paths |-> IF p \in DeletePaths(heap[deleter[d].job])
                                THEN NoFile ELSE disk[p]]
    /\ deleter' = [deleter EXCEPT ![d].pc = "d365"]
    /\ UNCHANGED <<job_counter, transcription_jobs, heap, now, post, worker, cleaner, swept, lister>>

\* Lines 365-367: del transcription_jobs[job_id], then the 200 response; a
\* KeyError is an unhandled fault (500).
DeleteRemove(d) ==
    /\ deleter[d].pc = "d365"
    /\ IF Has(transcription_jobs, deleter[d].id)
       THEN /\ transcription_jobs' = DictDel(transcription_jobs, deleter[d].id)
            /\ deleter' = [deleter EXCEPT ![d].pc = "done", ![d].job = NoJob, ![d].code = 200]
       ELSE /\ transcription_jobs' = transcription_jobs
            /\ deleter' = [deleter EXCEPT ![d].pc = "done", ![d].job = NoJob, ![d].code = 500]
    /\ UNCHANGED <<job_counter, heap, disk, now, post, worker, cleaner, swept, lister>>

\* ------------------------------------------ POST /cleanup (cleanup_old_files)
\* Line 384 and line 393: older than max_age_hours.
Expired(current_time, t) == current_time - t > MaxAgeHours

\* Lines 374-388: the sweep of both folders.
CleanupSweep ==
    /\ cleaner.pc = "idle"
    /\ LET old == {p \in Paths : disk[p] # NoFile /\ Expired(now, disk[p])} IN
       /\ disk' = [p \in Paths |-> IF p \in old THEN NoFile ELSE disk[p]]
       /\ swept' = swept \cup old
    /\ cleaner' = [cleaner EXCEPT !.pc = "c392", !.current_time = now, !.code = 0]
    /\ UNCHANGED <<job_counter, transcription_jobs, heap, now, post, worker, deleter, lister>>

\* Line 393, for one entry of the registry.
ToRemove(e) ==
    /\ heap[e.v].end_time # NoTime
    /\ Expired(cleaner.current_time, heap[e.v].end_time)

\* Lines 391-394: jobs_to_remove, in the registry's order.
CleanupScan ==
    /\ cleaner.pc = "c392"
    /\ LET sel == SelectSeq(transcription_jobs, ToRemove) IN
       cleaner' = [cleaner EXCEPT !.pc = "c396",
                                  !.jobs_to_remove = [i \in 1..Len(sel) |-> sel[i].k]]
    /\ UNCHANGED <<job_counter, transcription_jobs, heap, disk, now, post, worker, deleter, swept, lister>>

\* Lines 396-397, one iteration: del transcription_jobs[job_id]; a KeyError
\* ends in the except clause of line 403 (500). Lines 399-401 after the last.
CleanupRemove ==
    /\ cleaner.pc = "c396"
    /\ IF cleaner.jobs_to_remove = <<>>
       THEN /\ cleaner' = [cleaner EXCEPT !.pc = "idle", !.current_time = 0, !.code = 200]
            /\ transcription_jobs' = transcription_jobs
       ELSE IF Has(transcription_jobs, Head(cleaner.jobs_to_remove))
       THEN /\ cleaner' = [cleaner EXCEPT !.jobs_to_remove = Tail(cleaner.jobs_to_remove)]
            /\ transcription_jobs' = DictDel(transcription_jobs, Head(cleaner.jobs_to_remove))
       ELSE /\ cleaner' = [cleaner EXCEPT !.pc = "idle", !.current_time = 0,
                                          !.jobs_to_remove = <<>>, !.code = 500]
            /\ transcription_jobs' = transcription_jobs
    /\ UNCHANGED <<job_counter, heap, disk, now, post, worker, deleter, swept, lister>>

\* ------------------------------------------------- the read-only handlers
\* TranscriptionJob.to_dict, lines 81-94 (start_time and language are not
\* modelled).
ToDict(job) ==
    [job_id |-> job.job_id, filename |-> job.filename, engine |-> job.engine,
     status |-> job.status, progress |-> job.progress,
     end_time |-> IF job.end_time # NoTime THEN job.end_time ELSE NoTime,
     error_message |-> job.error_message, output_files |-> job.output_files]

\* GET /status/<job_id>, lines 301-306
GetJobStatus(id) ==
    IF ~Has(transcription_jobs, id)
    THEN [code |-> 404, body |-> "Job not found"]
    ELSE [code |-> 200, body |-> ToDict(heap[LookUp(transcription_jobs, id)])]

\* GET /download/<job_id>/<file_type>, lines 309-330: the response code.
DownloadFile(id, file_type) ==
    IF ~Has(transcription_jobs, id) THEN 404
    ELSE LET job == heap[LookUp(transcription_jobs, id)]
             file_key == IF file_type = "srt" THEN "srt_file" ELSE "txt_file"
         IN IF job.status # "completed" THEN 400
            ELSE IF file_type \notin {"srt", "txt"} THEN 400
            ELSE IF file_key \notin DOMAIN job.output_files THEN 404
            ELSE IF disk[job.output_files[file_key]] = NoFile THEN 404
            ELSE 200

\* GET /jobs, lines 333-339, served with no step of another thread in between.
ListJobs ==
    LET jobs == [i \in 1..Len(transcription_jobs) |-> ToDict(heap[transcription_jobs[i].v])]
    IN [code |-> 200, jobs |-> jobs, total |-> Len(jobs)]

\* GET /jobs, line 335: transcription_jobs.values() is iterated. The iterator
\* remembers the size of the dict at its creation.
ListBegin ==
    /\ lister.pc = "idle"
    /\ lister' = [lister EXCEPT !.pc = "iter", !.used = Len(transcription_jobs)]
    /\ UNCHANGED <<job_counter, transcription_jobs, heap, disk, now, post, worker, deleter,
                   cleaner, swept>>

\* Line 335, one turn of the comprehension: next() on the iterator raises
\* RuntimeError ("dictionary changed size during iteration") when the size is
\* no longer the remembered one, and nothing in list_jobs catches it (500);
\* otherwise job.to_dict() of the next entry is appended, or, at the end, lines
\* 336-339 return the list with its length. The position counts the entries
\* passed in the order of the registry.
ListNext ==
    /\ lister.pc = "iter"
    /\ lister' =
         IF Len(transcription_jobs) # lister.used
         THEN [lister EXCEPT !.pc = "done", !.jobs = <<>>, !.code = 500]
         ELSE IF lister.pos < Len(transcription_jobs)
         THEN [lister EXCEPT !.pos = lister.pos + 1,
                             !.jobs = Append(lister.jobs,
                                 ToDict(heap[transcription_jobs[lister.pos + 1].v]))]
         ELSE [lister EXCEPT !.pc = "done", !.code = 200]
    /\ UNCHANGED <<job_counter, transcription_jobs, heap, disk, now, post, worker, deleter,
                   cleaner, swept>>

\* ------------------------------------------------------------------ time
Tick ==
    /\ now < MaxTicks * TickHours
    /\ now' = now + TickHours
    /\ UNCHANGED <<job_counter, transcription_jobs, heap, disk, post, worker, deleter,
                   cleaner, swept, lister>>

\* ------------------------------------------------------- the specifications
Worker(h) ==
    \/ WorkerCheck(h) \/ WorkerLookup(h) \/ WorkerProcessing(h)
    \/ CallbackCheck(h) \/ CallbackWrite(h) \/ BackendRun(h) \/ WrapperReturn(h)
    \/ WorkerStatus(h) \/ WorkerOutputs(h) \/ WorkerProgress(h) \/ WorkerError(h)
    \/ ExceptStatus(h) \/ ExceptMessage(h) \/ ExceptEndTime(h)

PostRest(h) ==
    \/ GetNextLoad(h) \/ GetNextStore(h) \/ GetNextFormat(h)
    \/ PostInsert(h) \/ PostStart(h) \/ PostReturn(h)

Delete(d) == DeleteCheck(d) \/ DeleteLookup(d) \/ DeleteFiles(d) \/ DeleteRemove(d)

Cleanup == CleanupSweep \/ CleanupScan \/ CleanupRemove

List == ListBegin \/ ListNext

\* The threads of POST /transcribe requests H with their workers, of DELETE
\* requests D, the cleanup handler and the clock.
NextOf(H, D) ==
    \/ \E h \in H : PostSave(h) \/ PostReject(h) \/ PostRest(h) \/ Worker(h)
    \/ \E d \in D : Delete(d)
    \/ Cleanup
    \/ Tick

\* The whole server.
Next == NextOf(Jobs, Deleters) \/ List

Spec == Init /\ [][Next]_vars

\* One job: a POST /transcribe request and its worker, with a DELETE
\* request, cleanup and the clock.
NextJob == NextOf({1}, {1})

SpecJob == Init /\ [][NextJob]_vars

\* The same with the worker thread scheduled while it can run and a backend
\* call that comes to an end.
FairJob == SpecJob /\ WF_vars(Worker(1)) /\ SF_vars(BackendRun(1))

\* One job with concurrent DELETE requests, cleanup and the clock.
NextDeletes == NextOf({1}, Deleters)

SpecDeletes == Init /\ [][NextDeletes]_vars

\* POST /transcribe requests served concurrently, and their workers.
NextPosts == \E h \in Jobs : PostSave(h) \/ PostReject(h) \/ PostRest(h) \/ Worker(h)

SpecPosts == Init /\ [][NextPosts]_vars

\* One job with a DELETE request, cleanup and the clock, and a GET /jobs
\* request.
NextList == NextOf({1}, {1}) \/ List

SpecList == Init /\ [][NextList]_vars

\* One job, with other POST /transcribe requests that fail validation.
NextRejects ==
    \/ PostSave(1) \/ PostRest(1) \/ Worker(1)
    \/ \E h \in Jobs : PostReject(h)

SpecRejects == Init /\ [][NextRejects]_vars

\* ================================================================ the claims
Terminal == {"completed", "failed"}

\* pending -> processing -> completed | failed, a record's first state being
\* the one its constructor gives it.
Forward(old, new) ==
    \/ new = old
    \/ old = "unborn" /\ new = "pending"
    \/ old = "pending" /\ new = "processing"
    \/ old = "processing" /\ new \in Terminal

\* C1: in every step of a job's worker, of its progress callback, of DELETE
\* and of cleanup, the status of every record stays as it is or moves one
\* step forward along pending -> processing -> completed | failed; a
\* completed or failed record keeps its status.
C1StatusForward == [][\A j \in Jobs : Forward(heap[j].status, heap'[j].status)]_vars

\* A job has failed and its worker has returned, after a DELETE of that job
\* was answered and a cleanup has run.
C1Witness ==
    /\ heap[1].status = "failed" /\ worker[1].pc = "done"
    /\ \E d \in Deleters : deleter[d].code = 200 /\ deleter[d].id = post[1].id
    /\ cleaner.code = 200

\* C2: whatever GET /status returns for a job in the registry, its
\* output_files is non-empty if and only if its status is completed.
C2OutputsIffCompleted ==
    \A id \in Keys(transcription_jobs) :
        LET body == GetJobStatus(id).body IN
        (DOMAIN body.output_files # {}) <=> (body.status = "completed")

\* C3: whatever GET /status returns for a job in the registry, its
\* error_message is set if and only if its status is failed.
C3ErrorIffFailed ==
    \A id \in Keys(transcription_jobs) :
        LET body == GetJobStatus(id).body IN
        (body.error_message # NoMessage) <=> (body.status = "failed")

\* No DELETE request has named the identifier, and cleanup has removed
\* neither the record nor one of the job's files.
Untouched(id) ==
    /\ Has(transcription_jobs, id)
    /\ \A d \in Deleters : deleter[d].id # id
    /\ LET job == heap[LookUp(transcription_jobs, id)] IN
       \A p \in swept : p # job.filename /\ p[2] # job.filename[2]

\* C4: when GET /status reports a job completed and neither DELETE nor
\* cleanup has touched the job or its files, GET /download answers 200 for
\* srt and for txt.
C4DownloadAfterCompleted ==
    \A id \in Keys(transcription_jobs) :
        (GetJobStatus(id).body.status = "completed" /\ Untouched(id))
            => \A t \in {"srt", "txt"} : DownloadFile(id, t) = 200

\* C5 as claimed: the job, once its POST /transcribe has returned 202,
\* eventually has status completed or failed.
C5EventuallyTerminal ==
    (post[1].pc = "done") ~> (heap[1].status \in Terminal)

\* The worker has ended without fetching the record: lines 203-206 found the
\* identifier gone.
EndedUnfetched(h) == worker[h].pc \in {"done", "crashed"} /\ worker[h].job = NoJob

\* C5 as amended: the job, once its POST /transcribe has returned 202,
\* eventually has status completed or failed, or its worker has ended
\* without the record, which was removed before the worker fetched it.
C5TerminalOrUnfetched ==
    (post[1].pc = "done") ~> (heap[1].status \in Terminal \/ EndedUnfetched(1))

\* The backend raised and the job ended failed.
C5Witness ==
    /\ post[1].pc = "done" /\ worker[1].pc = "done"
    /\ heap[1].status = "failed" /\ heap[1].error_message = "transcription failed"

\* C6: the identifiers that POST /transcribe requests have returned are
\* pairwise distinct.
C6IdsDistinct ==
    \A g, h \in Jobs :
        (g # h /\ post[g].pc = "done" /\ post[h].pc = "done") => post[g].id # post[h].id

\* C7 as claimed: in the state in which POST /transcribe returns, GET
\* /status for the identifier it returns answers 200 with status pending.
C7PendingAtReturn ==
    [][\A h \in Jobs :
         (post[h].pc = "return" /\ post'[h].pc = "done") =>
            LET r == GetJobStatus(post[h].id)' IN
            r.code = 200 /\ r.body.status = "pending"]_vars

\* A DELETE has removed the record of request h, or cleanup may have: its
\* end_time is older than the maximum age.
Removed(h) ==
    \/ \E d \in Deleters : deleter[d].id = post[h].id /\ deleter[d].code = 200
    \/ heap[h].end_time # NoTime /\ Expired(now, heap[h].end_time)

\* C7 as amended: in the state in which POST /transcribe returns, GET
\* /status for the identifier it returns answers 200 with the request's own
\* record, whose status is pending or, the worker having started, processing,
\* completed or failed; it answers 404 only if a DELETE or cleanup has
\* removed the record.
C7ResolvableAtReturn ==
    [][\A h \in Jobs :
         (post[h].pc = "return" /\ post'[h].pc = "done") =>
            LET r == GetJobStatus(post[h].id)' IN
            IF r.code = 200
            THEN /\ r.body.job_id = post[h].id
                 /\ r.body.filename = UploadPath(h)
                 /\ r.body.status \in {"pending", "processing"} \cup Terminal
            ELSE Removed(h)']_vars

\* POST /transcribe has returned and the record is in the registry, pending.
C7Witness ==
    /\ post[1].pc = "done"
    /\ GetJobStatus(post[1].id).code = 200
    /\ GetJobStatus(post[1].id).body.status = "pending"

\* C8: an identifier for which DELETE has answered 200 is not in the
\* registry: GET /status answers 404 and GET /jobs does not list it.
C8DeletedStaysDeleted ==
    \A d \in Deleters :
        deleter[d].code = 200 =>
            /\ GetJobStatus(deleter[d].id).code = 404
            /\ \A i \in 1..ListJobs.total : ListJobs.jobs[i].job_id # deleter[d].id

\* DELETE answered 200 while the worker was running; the worker has since
\* completed the record, whose output files DELETE did not see.
C8Witness ==
    /\ \E d \in Deleters : deleter[d].code = 200 /\ deleter[d].id = post[1].id
    /\ worker[1].pc = "done" /\ heap[1].status = "completed"
    /\ disk[OutputPath(heap[1].filename, "srt")] # NoFile

\* C9: every DELETE answered so far ended in 200 or 404, never in a fault,
\* and at most one DELETE of an identifier was answered 200.
C9OneOkRestNotFound ==
    /\ \A d \in Deleters : deleter[d].pc = "done" => deleter[d].code \in {200, 404}
    /\ \A c, d \in Deleters :
         (c # d /\ deleter[c].id = deleter[d].id /\ deleter[c].code = 200)
            => deleter[d].code # 200

\* C10: once DELETE has answered 200 for a job and the job's worker has
\* ended, neither the upload nor an output file of the job is on disk.
C10FilesGone ==
    \A h \in Jobs :
        ( /\ \E d \in Deleters : deleter[d].code = 200 /\ deleter[d].id = post[h].id
          /\ worker[h].pc \in {"done", "crashed"} )
        => /\ disk[heap[h].filename] = NoFile
           /\ \A e \in {"srt", "txt"} : disk[OutputPath(heap[h].filename, e)] = NoFile

\* C11: no record has progress 100 while its status is pending.
C11NoFullProgressPending ==
    \A j \in Jobs : ~(heap[j].progress = 100 /\ heap[j].status = "pending")

\* A progress callback has written 100 into the record of a running job.
C11Witness ==
    /\ heap[1].progress = 100 /\ heap[1].status = "processing"
    /\ worker[1].pc = "backend"

\* The request fails validation as C12 lists it: no file, an empty filename,
\* an extension outside the allow-list, or an engine other than autosub and
\* whisper (engine names compared without regard to case, absent meaning
\* whisper).
FailsValidation(req) ==
    \/ ~req.has_file
    \/ req.filename = <<"">>
    \/ Len(req.filename) = 1
    \/ Lower(req.filename[Len(req.filename)]) \notin AllowedExtensions
    \/ (req.engine # NoField /\ Lower(req.engine) \notin {"autosub", "whisper"})

\* C12: a POST /transcribe request that fails validation returns 400 and changes
\* nothing: no record, no counter advance, no upload file, no worker thread.
C12RejectedChangesNothing ==
    [][\A h \in Jobs :
          (Arrives(h) /\ post'[h].pc # "idle") =>
              \A req \in Requests :
                  (FailsValidation(req) /\ (PostSaveOf(h, req) \/ PostRejectOf(h, req)))
                      => /\ post'[h].pc = "rejected" /\ post'[h].code = 400
                         /\ UNCHANGED <<job_counter, transcription_jobs, heap, disk, worker>>
                         /\ \A g \in Jobs \ {h} : post'[g] = post[g]]_vars

\* The second request was rejected while the first one's job is in the store
\* and its worker is running.
C12Witness ==
    /\ post[2].pc = "rejected"
    /\ Len(transcription_jobs) = 1 /\ job_counter = 1
    /\ worker[1].pc = "backend" /\ worker[2].pc = "idle"
    /\ disk[UploadPath(2)] = NoFile

\* The worker is between the return of the backend call and its own end: its
\* next steps are the completion writes of lines 225-237.
CompletionPcs == {"check", "w226", "w228", "w229", "w232", "w235", "w236", "w237"}

\* The records the store holds.
Stored == {transcription_jobs[i].v : i \in 1..Len(transcription_jobs)}

C14CallbackNeverRaises ==
    [][\A h \in Jobs :
          (worker[h].pc = "cb111" /\ worker'[h] # worker[h])
              => /\ worker'[h].pc = "backend"
                 /\ ~Has(transcription_jobs, Arg(h)) => heap' = heap]_vars

\* C15: every record a cleanup invocation removes has a terminal status, and
\* when the invocation returns no record with a terminal status and an end_time
\* older than the maximum age (as of the invocation's current_time) is left in
\* the store.
C15CleanupExactlyOldTerminal ==
    [][(cleaner.pc = "c396" /\ cleaner' # cleaner) =>
          /\ transcription_jobs' # transcription_jobs =>
                heap[LookUp(transcription_jobs, Head(cleaner.jobs_to_remove))].status
                    \in Terminal
          /\ cleaner'.pc = "idle" =>
                \A j \in Stored :
                    ~(/\ heap[j].status \in Terminal
                      /\ heap[j].end_time # NoTime
                      /\ Expired(cleaner.current_time, heap[j].end_time))]_vars

\* C16: GET /jobs never fails: whenever it has returned, it has returned 200
\* with total equal to the length of the list.
C16ListNeverFails ==
    lister.pc = "done" => /\ lister.code = 200
                          /\ lister.pos = Len(lister.jobs)

\* C17: every path in the output_files of a completed record in the store
\* exists on disk.
C17CompletedFilesExist ==
    \A j \in Stored :
        heap[j].status = "completed" =>
            \A k \in DOMAIN heap[j].output_files : disk[heap[j].output_files[k]] # NoFile

\* C18: end_time is unset while the status is pending or processing and set
\* once it is completed or failed.
C18EndTimeIffTerminal ==
    \A j \in Jobs :
        /\ heap[j].status \in {"pending", "processing"} => heap[j].end_time = NoTime
        /\ heap[j].status \in Terminal => heap[j].end_time # NoTime

\* C19: while the status is processing, progress stays in 0..100 and never
\* decreases.
C19ProgressMonotone ==
    [][\A j \in Jobs :
          (heap[j].status = "processing" /\ heap'[j].status = "processing")
              => /\ heap'[j].progress \in 0..100
                 /\ heap'[j].progress >= heap[j].progress]_vars

\* The outcomes in which the backend call returned a true result other than -1.
DeclaredSuccess == {"ok", "no_srt", "no_txt"}

\* C20: the terminal status follows from the backend outcome. The wrapper
\* reports success exactly when the backend returned a true result and both
\* output files exist; -1 gives the text "Transcription was cancelled" and no
\* other outcome does; an exception leaving the wrapper goes to the except
\* clause; and the worker then writes completed for success, failed (with the
\* wrapper's text) otherwise.
C20StatusFromOutcome ==
    [][\A h \in Jobs :
          LET w == worker[h]
              j == worker[h].job
              both == /\ disk[OutputPath(heap[j].filename, "srt")] # NoFile
                      /\ disk[OutputPath(heap[j].filename, "txt")] # NoFile
          IN  worker'[h] # w =>
                /\ w.pc = "check" =>
                     /\ worker'[h].pc = IF w.result = "escape" THEN "w235" ELSE "w226"
                     /\ w.result # "escape" =>
                          /\ worker'[h].success = (w.result \in DeclaredSuccess /\ both)
                          /\ (worker'[h].message = "Transcription was cancelled")
                                 = (w.result = "cancel")
                /\ w.pc = "w226" =>
                     heap'[j].status = IF w.success THEN "completed" ELSE "failed"
                /\ w.pc = "w232" =>
                     /\ heap'[j].status = "failed"
                     /\ heap'[j].error_message = w.message
                /\ w.pc \in {"w228", "w229"} => heap'[j].status = "completed"
                /\ w.pc \in {"w235", "w236", "w237"} => heap'[j].status = "failed"
                /\ (w.pc \in CompletionPcs /\ worker'[h].pc = "done") =>
                     heap'[j].status \in Terminal]_vars

\* The backend returned -1 and the job has ended failed with the cancellation
\* text.
C20Witness ==
    /\ worker[1].pc = "done" /\ worker[1].job = 1
    /\ heap[1].status = "failed"
    /\ heap[1].error_message = "Transcription was cancelled"
    /\ heap[1].end_time # NoTime

\* The requests whose worker thread has been started (line 292).
Started == {h \in Jobs : worker[h].pc # "idle"}

\* C21: no two workers are ever started for the same job identifier, and a
\* record enters processing only from pending.
C21OneWorkerPerId ==
    [][/\ \A g \in Started' : \A h \in Started' : g # h => post'[g].id # post'[h].id
       /\ \A j \in Jobs :
             (heap'[j].status = "processing" /\ heap[j].status # "processing")
                 => heap[j].status = "pending"]_vars

\* The worker of request h has ended after a successful run: it has stored the
\* wrapper's output files (line 228) and made its last write (line 229).
FinishedWithSuccess(h) ==
    /\ worker[h].pc = "done" /\ worker[h].job # NoJob
    /\ DOMAIN heap[worker[h].job].output_files # {}

\* C22: once a worker has finished with success, its job has status completed
\* and progress 100, in every later state.
C22FullProgressStays ==
    \A h \in Jobs :
        FinishedWithSuccess(h) =>
            /\ heap[worker[h].job].status = "completed"
            /\ heap[worker[h].job].progress = 100

\* An autosub job, whose backend is given the progress callback, has finished
\* with success and its record is still in the store.
C22Witness ==
    /\ FinishedWithSuccess(1)
    /\ heap[1].engine = "autosub" /\ heap[1].progress = 100
    /\ Has(transcription_jobs, Arg(1))

\* C23: a step of the worker of request h (its progress callback included)
\* changes no record but the one request h created and removes nothing from
\* transcription_jobs; a step of a DELETE request changes no record, removes no
\* entry but the one under its job_id, and removes nothing when it answers 404.
C23OtherJobsUntouched ==
    [][/\ \A h \in Jobs :
             (worker[h].pc # "idle" /\ worker'[h] # worker[h])
                 => /\ transcription_jobs' = transcription_jobs
                    /\ \A k \in Jobs \ {h} : heap'[k] = heap[k]
       /\ \A d \in Deleters :
             deleter'[d] # deleter[d]
                 => /\ heap' = heap
                    /\ \A i \in 1..Len(transcription_jobs) :
                          transcription_jobs[i].k # deleter'[d].id
                              => Has(transcription_jobs', transcription_jobs[i].k)
                    /\ deleter'[d].code = 404
                          => transcription_jobs' = transcription_jobs]_vars

====
